---------------------------- MODULE Spec2Model ----------------------------
(***************************************************************************)
(* Model of the plant-disease and pest inference pipelines                 *)
(* (ml_models/disease_predictor.py, ml_models/pest_predictor.py): the      *)
(* predictor classes (__init__, load_model, preprocess_image, predict),    *)
(* the command-line entry points, and the dummy models written by          *)
(* ml_models/train_model.py.                                               *)
(*                                                                         *)
(* Strings the code inspects or rewrites (labels) are sequences of          *)
(* one-character strings, so lower(), upper(), replace() and `in` are      *)
(* computed.  Messages are sequences of the pieces the f-strings join.     *)
(* Probabilities are small naturals (tenths).                              *)
(***************************************************************************)
EXTENDS Integers, Sequences, FiniteSets, TLC

VARIABLES
  caller,       \* "main": the script run as a process; "client": code using the class
  pipeline,     \* "disease" or "pest"
  sys_argv,     \* sys.argv of the process (program name first)
  pc,           \* position of the caller
  predictor,    \* the predictor instance (fields of self), or NoPredictor
  stdout,       \* what has been printed, in order
  exit_status,  \* Running, 0 or 1
  ret,          \* outcome of the last constructor or predict call
  stages,       \* stages the last call ran, in order
  loads,        \* number of times load_model ran on the instance
  calls,        \* number of predict calls made
  cin,          \* composition check: the inputs drawn
  cout          \* composition check: the outcome

vars ==
  <<caller, pipeline, sys_argv, pc, predictor, stdout, exit_status, ret,
    stages, loads, calls, cin, cout>>

---------------------------------------------------------------------------
(* Bounds *)

\* largest probability value (in tenths) a drawn vector holds
MaxProb ==
  2

\* predict calls a client makes on one instance
MaxCalls ==
  2

\* arguments given to the script, at most
MaxArgs ==
  3

\* length of the label lists drawn for the composition check
MaxLabels ==
  2

\* length of the vectors drawn for the composition check
MaxVecLen ==
  3

---------------------------------------------------------------------------
(* Data of the two classes *)

\* src/ml_models/disease_predictor.py:13-26
Disease_class_names ==
  <<
    <<"A","p","p","l","e","_","s","c","a","b">>,
    <<"A","p","p","l","e","_","B","l","a","c","k","_","r","o","t">>,
    <<"A","p","p","l","e","_","C","e","d","a","r","_","a","p","p","l","e","_","r","u","s","t">>,
    <<"A","p","p","l","e","_","h","e","a","l","t","h","y">>,
    <<"B","l","u","e","b","e","r","r","y","_","h","e","a","l","t","h","y">>,
    <<"C","h","e","r","r","y","_","P","o","w","d","e","r","y","_","m","i","l","d","e","w">>,
    <<"C","h","e","r","r","y","_","h","e","a","l","t","h","y">>,
    <<"C","o","r","n","_","C","e","r","c","o","s","p","o","r","a","_","l","e","a","f","_","s","p","o","t">>,
    <<"C","o","r","n","_","C","o","m","m","o","n","_","r","u","s","t">>,
    <<"C","o","r","n","_","N","o","r","t","h","e","r","n","_","L","e","a","f","_","B","l","i","g","h","t">>,
    <<"C","o","r","n","_","h","e","a","l","t","h","y">>,
    <<"G","r","a","p","e","_","B","l","a","c","k","_","r","o","t">>,
    <<"G","r","a","p","e","_","E","s","c","a">>,
    <<"G","r","a","p","e","_","L","e","a","f","_","b","l","i","g","h","t">>,
    <<"G","r","a","p","e","_","h","e","a","l","t","h","y">>,
    <<"O","r","a","n","g","e","_","H","a","u","n","g","l","o","n","g","b","i","n","g">>,
    <<"P","e","a","c","h","_","B","a","c","t","e","r","i","a","l","_","s","p","o","t">>,
    <<"P","e","a","c","h","_","h","e","a","l","t","h","y">>,
    <<"P","e","p","p","e","r","_","B","a","c","t","e","r","i","a","l","_","s","p","o","t">>,
    <<"P","e","p","p","e","r","_","h","e","a","l","t","h","y">>,
    <<"P","o","t","a","t","o","_","E","a","r","l","y","_","b","l","i","g","h","t">>,
    <<"P","o","t","a","t","o","_","L","a","t","e","_","b","l","i","g","h","t">>,
    <<"P","o","t","a","t","o","_","h","e","a","l","t","h","y">>,
    <<"R","a","s","p","b","e","r","r","y","_","h","e","a","l","t","h","y">>,
    <<"S","o","y","b","e","a","n","_","h","e","a","l","t","h","y">>,
    <<"S","q","u","a","s","h","_","P","o","w","d","e","r","y","_","m","i","l","d","e","w">>,
    <<"S","t","r","a","w","b","e","r","r","y","_","L","e","a","f","_","s","c","o","r","c","h">>,
    <<"S","t","r","a","w","b","e","r","r","y","_","h","e","a","l","t","h","y">>,
    <<"T","o","m","a","t","o","_","B","a","c","t","e","r","i","a","l","_","s","p","o","t">>,
    <<"T","o","m","a","t","o","_","E","a","r","l","y","_","b","l","i","g","h","t">>,
    <<"T","o","m","a","t","o","_","L","a","t","e","_","b","l","i","g","h","t">>,
    <<"T","o","m","a","t","o","_","L","e","a","f","_","M","o","l","d">>,
    <<"T","o","m","a","t","o","_","S","e","p","t","o","r","i","a","_","l","e","a","f","_","s","p","o","t">>,
    <<"T","o","m","a","t","o","_","S","p","i","d","e","r","_","m","i","t","e","s">>,
    <<"T","o","m","a","t","o","_","T","a","r","g","e","t","_","S","p","o","t">>,
    <<"T","o","m","a","t","o","_","Y","e","l","l","o","w","_","L","e","a","f","_","C","u","r","l","_","V","i","r","u","s">>,
    <<"T","o","m","a","t","o","_","m","o","s","a","i","c","_","v","i","r","u","s">>,
    <<"T","o","m","a","t","o","_","h","e","a","l","t","h","y">>
  >>

\* src/ml_models/disease_predictor.py:29-75
disease_info ==
  <<"A","p","p","l","e","_","s","c","a","b">> :> [description |-> "Fungal disease causing dark, scaly lesions on leaves and fruit",
        treatment |-> "Apply fungicides like Mancozeb or Copper sulfate",
        pesticide |-> [name |-> "Mancozeb", dosage |-> "2-3 g/L", type |-> "Fungicide"]]
  @@ <<"A","p","p","l","e","_","B","l","a","c","k","_","r","o","t">> :> [description |-> "Fungal disease causing black cankers on branches and fruit rot",
        treatment |-> "Prune infected areas and apply Captan or Thiophanate-methyl",
        pesticide |-> [name |-> "Captan", dosage |-> "2-3 g/L", type |-> "Fungicide"]]
  @@ <<"A","p","p","l","e","_","C","e","d","a","r","_","a","p","p","l","e","_","r","u","s","t">> :> [description |-> "Fungal disease causing yellow-orange spots on leaves",
        treatment |-> "Apply Propiconazole or Myclobutanil fungicides",
        pesticide |-> [name |-> "Propiconazole", dosage |-> "1-2 ml/L", type |-> "Fungicide"]]
  @@ <<"C","o","r","n","_","C","e","r","c","o","s","p","o","r","a","_","l","e","a","f","_","s","p","o","t">> :> [description |-> "Fungal disease causing small rectangular lesions on leaves",
        treatment |-> "Apply Azoxystrobin or Tebuconazole fungicides",
        pesticide |-> [name |-> "Azoxystrobin", dosage |-> "1-1.5 ml/L", type |-> "Fungicide"]]
  @@ <<"C","o","r","n","_","C","o","m","m","o","n","_","r","u","s","t">> :> [description |-> "Fungal disease causing small oval rust pustules on leaves",
        treatment |-> "Apply Chlorothalonil or Propiconazole fungicides",
        pesticide |-> [name |-> "Chlorothalonil", dosage |-> "2-3 ml/L", type |-> "Fungicide"]]
  @@ <<"C","o","r","n","_","N","o","r","t","h","e","r","n","_","L","e","a","f","_","B","l","i","g","h","t">> :> [description |-> "Fungal disease causing large grayish-green lesions on leaves",
        treatment |-> "Apply Mancozeb or Azoxystrobin fungicides",
        pesticide |-> [name |-> "Mancozeb", dosage |-> "2-3 g/L", type |-> "Fungicide"]]
  @@ <<"T","o","m","a","t","o","_","E","a","r","l","y","_","b","l","i","g","h","t">> :> [description |-> "Fungal disease causing brown spots with concentric rings on leaves",
        treatment |-> "Apply Chlorothalonil or Mancozeb fungicides",
        pesticide |-> [name |-> "Chlorothalonil", dosage |-> "2-3 ml/L", type |-> "Fungicide"]]
  @@ <<"T","o","m","a","t","o","_","L","a","t","e","_","b","l","i","g","h","t">> :> [description |-> "Devastating fungal disease causing water-soaked lesions",
        treatment |-> "Apply Metalaxyl or Copper-based fungicides immediately",
        pesticide |-> [name |-> "Metalaxyl", dosage |-> "2-3 g/L", type |-> "Fungicide"]]
  @@ <<"T","o","m","a","t","o","_","L","e","a","f","_","M","o","l","d">> :> [description |-> "Fungal disease causing yellow patches on upper leaf surface",
        treatment |-> "Improve air circulation and apply Chlorothalonil",
        pesticide |-> [name |-> "Chlorothalonil", dosage |-> "2-3 ml/L", type |-> "Fungicide"]]

\* src/ml_models/pest_predictor.py:13-16
Pest_class_names ==
  <<
    <<"a","p","h","i","d","s">>,
    <<"a","r","m","y","w","o","r","m">>,
    <<"b","e","e","t","l","e">>,
    <<"b","o","l","l","w","o","r","m">>,
    <<"e","a","r","t","h","w","o","r","m">>,
    <<"g","r","a","s","s","h","o","p","p","e","r">>,
    <<"m","i","t","e","s">>,
    <<"m","o","s","q","u","i","t","o">>,
    <<"s","a","w","f","l","y">>,
    <<"s","t","e","m","_","b","o","r","e","r">>
  >>

\* src/ml_models/pest_predictor.py:19-70
pest_info ==
  <<"a","p","h","i","d","s">> :> [description |-> "Small soft-bodied insects that feed on plant sap",
        treatment |-> "Apply Imidacloprid or use biological control with ladybugs",
        pesticide |-> [name |-> "Imidacloprid", dosage |-> "0.5-1 ml/L", type |-> "Systemic Insecticide"]]
  @@ <<"a","r","m","y","w","o","r","m">> :> [description |-> "Caterpillars that feed on leaves and can cause severe defoliation",
        treatment |-> "Apply Chlorantraniliprole or Spinetoram insecticides",
        pesticide |-> [name |-> "Chlorantraniliprole", dosage |-> "150-300 ml/ha", type |-> "Systemic Insecticide"]]
  @@ <<"b","e","e","t","l","e">> :> [description |-> "Hard-bodied insects that chew on leaves and stems",
        treatment |-> "Apply Cypermethrin or use mechanical removal",
        pesticide |-> [name |-> "Cypermethrin", dosage |-> "1-2 ml/L", type |-> "Contact Insecticide"]]
  @@ <<"b","o","l","l","w","o","r","m">> :> [description |-> "Caterpillars that bore into cotton bolls and other fruits",
        treatment |-> "Apply Emamectin benzoate or Profenofos",
        pesticide |-> [name |-> "Emamectin benzoate", dosage |-> "0.5 g/L", type |-> "Systemic Insecticide"]]
  @@ <<"e","a","r","t","h","w","o","r","m">> :> [description |-> "Beneficial organisms that improve soil health",
        treatment |-> "No treatment needed - earthworms are beneficial for soil",
        pesticide |-> [name |-> "No treatment needed", dosage |-> "N/A", type |-> "Beneficial"]]
  @@ <<"g","r","a","s","s","h","o","p","p","e","r">> :> [description |-> "Jumping insects that feed on leaves and can cause defoliation",
        treatment |-> "Apply Carbaryl or use biological control with Nosema locustae",
        pesticide |-> [name |-> "Carbaryl", dosage |-> "2-3 g/L", type |-> "Contact Insecticide"]]
  @@ <<"m","i","t","e","s">> :> [description |-> "Tiny arachnids that cause stippling and yellowing of leaves",
        treatment |-> "Apply Abamectin or increase humidity around plants",
        pesticide |-> [name |-> "Abamectin", dosage |-> "1-2 ml/L", type |-> "Acaricide"]]
  @@ <<"m","o","s","q","u","i","t","o">> :> [description |-> "Flying insects; adults are not harmful to plants",
        treatment |-> "Control breeding sites and use Bt for larvae",
        pesticide |-> [name |-> "Bacillus thuringiensis", dosage |-> "1-2 g/L", type |-> "Biological"]]
  @@ <<"s","a","w","f","l","y">> :> [description |-> "Wasp-like insects whose larvae feed on leaves",
        treatment |-> "Apply Spinosad or use biological control",
        pesticide |-> [name |-> "Spinosad", dosage |-> "1-2 ml/L", type |-> "Biological Insecticide"]]
  @@ <<"s","t","e","m","_","b","o","r","e","r">> :> [description |-> "Caterpillars that bore into plant stems causing wilting",
        treatment |-> "Apply Chlorantraniliprole or Cartap hydrochloride",
        pesticide |-> [name |-> "Chlorantraniliprole", dosage |-> "150-300 ml/ha", type |-> "Systemic Insecticide"]]

\* src/ml_models/train_model.py:245  Dense(38, activation='softmax')
DummyDiseaseClasses ==
  38

\* src/ml_models/train_model.py:264  Dense(10, activation='softmax')
DummyPestClasses ==
  10

\* the default of self.disease_info.get(predicted_class, {...})
DiseaseFallback ==
  [description |-> "Disease detected",
   treatment |-> "Consult agricultural expert for treatment",
   pesticide |-> [name |-> "General Fungicide", dosage |-> "As per label", type |-> "Fungicide"]]

\* the default of self.pest_info.get(predicted_class, {...})
PestFallback ==
  [description |-> "Pest detected",
   treatment |-> "Consult agricultural expert for treatment",
   pesticide |-> [name |-> "General Insecticide", dosage |-> "As per label", type |-> "Insecticide"]]

\* the record assigned when 'healthy' in predicted_class.lower()
HealthyRecord ==
  [description |-> "Plant appears healthy",
   treatment |-> "Continue regular care and monitoring",
   pesticide |-> [name |-> "No treatment needed", dosage |-> "N/A", type |-> "N/A"]]

Pipelines ==
  {"disease", "pest"}

ClassNamesOf(p) ==
  IF p = "disease" THEN Disease_class_names ELSE Pest_class_names

InfoOf(p) ==
  IF p = "disease" THEN disease_info ELSE pest_info

FallbackOf(p) ==
  IF p = "disease" THEN DiseaseFallback ELSE PestFallback

---------------------------------------------------------------------------
(* str methods the code applies to labels *)

LowerCase ==
  <<"a","b","c","d","e","f","g","h","i","j","k","l","m",
    "n","o","p","q","r","s","t","u","v","w","x","y","z">>

UpperCase ==
  <<"A","B","C","D","E","F","G","H","I","J","K","L","M",
    "N","O","P","Q","R","S","T","U","V","W","X","Y","Z">>

\* str.lower() on one character
LowerChar(c) ==
  IF \E i \in 1..26 : UpperCase[i] = c
    THEN LowerCase[CHOOSE i \in 1..26 : UpperCase[i] = c]
    ELSE c

\* str.upper() on one character
UpperChar(c) ==
  IF \E i \in 1..26 : LowerCase[i] = c
    THEN UpperCase[CHOOSE i \in 1..26 : LowerCase[i] = c]
    ELSE c

\* s.lower()
Lower(s) ==
  [i \in 1..Len(s) |-> LowerChar(s[i])]

\* s.upper()
Upper(s) ==
  [i \in 1..Len(s) |-> UpperChar(s[i])]

\* s.replace(old, new) for one-character old and new
Replace(s, old, new) ==
  [i \in 1..Len(s) |-> IF s[i] = old THEN new ELSE s[i]]

\* sub in s
Contains(s, sub) ==
  \E k \in 0..(Len(s) - Len(sub)) :
    \A i \in 1..Len(sub) : s[k + i] = sub[i]

healthy ==
  <<"h","e","a","l","t","h","y">>

---------------------------------------------------------------------------
(* Values passed between the methods *)

NoPredictor ==
  [model_path |-> "", model |-> [path |-> "", outputs |-> 0],
   class_names |-> <<>>, info |-> <<>>, constructed |-> FALSE]

NoException ==
  [type |-> "None", msg |-> <<>>]

NoValue ==
  [none |-> TRUE]

Running ==
  -1

\* a raised exception: its class and str(e) as the joined pieces
Exc(type, msg) ==
  [type |-> type, msg |-> msg]

Return(v, ev, out) ==
  [ok |-> TRUE, val |-> v, exc |-> NoException, events |-> ev, printed |-> out]

Raise(e, ev, out) ==
  [ok |-> FALSE, val |-> NoValue, exc |-> e, events |-> ev, printed |-> out]

\* print(text)
TextLine(msg) ==
  [fmt |-> "text", body |-> msg]

\* print(json.dumps(obj))
JsonLine(obj) ==
  [fmt |-> "json", body |-> obj]

---------------------------------------------------------------------------
(* The file system and the external libraries *)

Paths ==
  {"disease_model.h5", "pest_model.h5", "corrupt.h5", "missing.h5", "leaf.jpg"}

\* os.path.exists(path)
Exists(path) ==
  path # "missing.h5"

\* whether tensorflow.keras load_model(path) returns a model
Loadable(path) ==
  path \in {"disease_model.h5", "pest_model.h5"}

\* the two dummy models saved under each other's file name
Outputs_swapped(path) ==
  IF path = "disease_model.h5" THEN DummyPestClasses ELSE DummyDiseaseClasses

\* units of the last layer of the model saved at path
Outputs(path) ==
  IF path = "disease_model.h5" THEN DummyDiseaseClasses ELSE DummyPestClasses

\* whether cv2.imread(path) returns an image (None otherwise)
Decodable(path) ==
  path = "leaf.jpg"

\* the step of preprocess_image an external call may fail in
PreFaults ==
  {"none", "cvtColor", "resize", "astype", "expand_dims"}

\* vectors model.predict may return for a model with k outputs: zero but for
\* the value a at i and the value b at the first or last position
Vector(k, i, j, a, b) ==
  [n \in 1..k |-> IF n = i THEN a ELSE IF n = j THEN b ELSE 0]

ModelOutputs(k) ==
  { Vector(k, i, j, a, b) : i \in 1..k, j \in {1, k}, a \in 0..MaxProb, b \in 0..MaxProb }

---------------------------------------------------------------------------
(* The methods of DiseasePredictor and PestPredictor *)

\* load_model without the os.path.exists test: the library call fails instead
load_model_unchecked(model_path) ==
  IF Exists(model_path) /\ Loadable(model_path)
    THEN Return([path |-> model_path, outputs |-> Outputs(model_path)],
                <<"load">>, <<>>)
    ELSE Raise(Exc("OSError", <<"Unable to open file: ", model_path>>),
               <<"load">>,
               <<TextLine(<<"Error loading model: ", "Unable to open file: ", model_path>>)>>)

\* load_model(self): returns the model or raises, printing before it re-raises
load_model(model_path) ==
  IF Exists(model_path)
    THEN IF Loadable(model_path)
           THEN Return([path |-> model_path, outputs |-> Outputs(model_path)],
                       <<"load">>, <<>>)
           ELSE Raise(Exc("OSError", <<"Unable to open file: ", model_path>>),
                      <<"load">>,
                      <<TextLine(<<"Error loading model: ", "Unable to open file: ", model_path>>)>>)
    ELSE Raise(Exc("FileNotFoundError", <<"Model file not found: ", model_path>>),
               <<"load">>,
               <<TextLine(<<"Error loading model: ", "Model file not found: ", model_path>>)>>)

\* __init__(self, model_path): sets the fields, then calls load_model
New(p, model_path) ==
  LET m == load_model(model_path)
  IN  IF m.ok
        THEN Return([model_path |-> model_path, model |-> m.val,
                     class_names |-> ClassNamesOf(p), info |-> InfoOf(p),
                     constructed |-> TRUE],
                    m.events, m.printed)
        ELSE Raise(m.exc, m.events, m.printed)

\* preprocess_image(self, image_path); fault names the library call that fails
preprocess_image(image_path, fault) ==
  IF ~(Exists(image_path) /\ Decodable(image_path))
    THEN Raise(Exc("ValueError", <<"Error preprocessing image: ", "Could not load image">>),
               <<"preprocess">>, <<>>)
    ELSE IF fault # "none"
           THEN Raise(Exc("ValueError", <<"Error preprocessing image: ", fault>>),
                      <<"preprocess">>, <<>>)
           ELSE Return([image |-> image_path, shape |-> <<1, 224, 224, 3>>],
                       <<"preprocess">>, <<>>)

\* np.argmax(v) for a non-empty v: a scan keeping the first largest value
RECURSIVE ArgmaxScan(_, _, _)
ArgmaxScan(v, n, best) ==
  IF n > Len(v)
    THEN best
    ELSE ArgmaxScan(v, n + 1, IF v[n] > v[best] THEN n ELSE best)

\* argmax keeping the last largest value instead of the first
argmax_last(v) ==
  (CHOOSE i \in 1..Len(v) :
     /\ \A j \in 1..Len(v) : v[j] <= v[i]
     /\ \A j \in (i + 1)..Len(v) : v[j] < v[i]) - 1

\* the 0-based index np.argmax returns
argmax(v) ==
  ArgmaxScan(v, 2, 1) - 1

\* dict.get(key, default)
dict_get(info, key, default) ==
  IF key \in DOMAIN info THEN info[key] ELSE default

\* advisory testing 'healthy' in predicted_class, without lower()
advisory_case_sensitive(p, info, predicted_class) ==
  IF p = "disease" /\ Contains(predicted_class, healthy)
    THEN HealthyRecord
    ELSE dict_get(info, predicted_class, FallbackOf(p))

\* advisory looking the table up under the displayed form of the label
advisory_displayed_key(p, info, predicted_class) ==
  IF p = "disease" /\ Contains(Lower(predicted_class), healthy)
    THEN HealthyRecord
    ELSE dict_get(info, IF p = "pest"
                          THEN Replace(Upper(predicted_class), "_", " ")
                          ELSE predicted_class,
                  FallbackOf(p))

\* the record predict puts in the response for predicted_class
advisory(p, info, predicted_class) ==
  IF p = "disease" /\ Contains(Lower(predicted_class), healthy)
    THEN HealthyRecord
    ELSE dict_get(info, predicted_class, FallbackOf(p))

\* the detected_class predict puts in the response
detected_class(p, predicted_class) ==
  IF p = "pest" THEN Replace(Upper(predicted_class), "_", " ") ELSE predicted_class

\* compose indexing the table, self.info[predicted_class], with no default
compose_keyerror(p, class_names, info, v) ==
  IF Len(v) = 0
    THEN Raise(Exc("ValueError", <<"attempt to get argmax of an empty sequence">>),
               <<"compose">>, <<>>)
    ELSE LET predicted_class_idx == argmax(v)
             confidence == v[predicted_class_idx + 1]
         IN  IF predicted_class_idx >= Len(class_names)
               THEN Raise(Exc("IndexError", <<"list index out of range">>),
                          <<"compose">>, <<>>)
               ELSE LET predicted_class == class_names[predicted_class_idx + 1]
                    IN  IF predicted_class \notin DOMAIN info
                          THEN Raise(Exc("KeyError", <<"key not in the table">>),
                                     <<"compose">>, <<>>)
                          ELSE LET rec == advisory(p, info, predicted_class)
                               IN  Return([detected_class |-> detected_class(p, predicted_class),
                                           confidence |-> confidence,
                                           description |-> rec.description,
                                           treatment |-> rec.treatment,
                                           pesticide |-> rec.pesticide],
                                          <<"compose">>, <<>>)

\* predict, from the argmax to the result (the vector is predictions[0])
compose(p, class_names, info, v) ==
  IF Len(v) = 0
    THEN Raise(Exc("ValueError", <<"attempt to get argmax of an empty sequence">>),
               <<"compose">>, <<>>)
    ELSE LET predicted_class_idx == argmax(v)
             confidence == v[predicted_class_idx + 1]
         IN  IF predicted_class_idx >= Len(class_names)
               THEN Raise(Exc("IndexError", <<"list index out of range">>),
                          <<"compose">>, <<>>)
               ELSE LET predicted_class == class_names[predicted_class_idx + 1]
                        rec == advisory(p, info, predicted_class)
                    IN  Return([detected_class |-> detected_class(p, predicted_class),
                                confidence |-> confidence,
                                description |-> rec.description,
                                treatment |-> rec.treatment,
                                pesticide |-> rec.pesticide],
                               <<"compose">>, <<>>)

\* what self.model.predict(processed_image) may do: raise, or return a vector
Inferences(model) ==
  {[raised |-> TRUE, vec |-> <<>>]}
    \cup {[raised |-> FALSE, vec |-> v] : v \in ModelOutputs(model.outputs)}

\* the forward pass is made, and its outcome drawn, only after preprocessing returned
Forward(model, image_path, fault) ==
  IF preprocess_image(image_path, fault).ok
    THEN Inferences(model)
    ELSE {[raised |-> FALSE, vec |-> <<>>]}

\* the try block going on to the forward pass after preprocessing failed
predict_try_no_stop(p, self, image_path, fault, inf) ==
  LET pre == preprocess_image(image_path, fault)
  IN  IF ~pre.ok
        THEN Raise(pre.exc, pre.events \o <<"forward">>, <<>>)
        ELSE IF inf.raised
               THEN Raise(Exc("InvalidArgumentError", <<"Graph execution error">>),
                          pre.events \o <<"forward">>, <<>>)
               ELSE LET c == compose(p, self.class_names, self.info, inf.vec)
                    IN  [c EXCEPT !.events = pre.events \o <<"forward">> \o c.events]

\* the body of predict's try block
predict_try(p, self, image_path, fault, inf) ==
  LET pre == preprocess_image(image_path, fault)
  IN  IF ~pre.ok
        THEN pre
        ELSE IF inf.raised
               THEN Raise(Exc("InvalidArgumentError", <<"Graph execution error">>),
                          pre.events \o <<"forward">>, <<>>)
               ELSE LET c == compose(p, self.class_names, self.info, inf.vec)
                    IN  [c EXCEPT !.events = pre.events \o <<"forward">> \o c.events]

\* predict loading the model again at each request
predict_reloading(p, self, image_path, fault, inf) ==
  LET m == load_model(self.model_path)
      r == predict_try(p, self, image_path, fault, inf)
  IN  IF r.ok
        THEN [r EXCEPT !.events = m.events \o r.events]
        ELSE Raise(Exc("Exception", <<"Prediction error: ">> \o r.exc.msg),
                   m.events \o r.events, r.printed)

\* predict(self, image_path): every exception becomes Exception("Prediction error: ...")
predict(p, self, image_path, fault, inf) ==
  LET r == predict_try(p, self, image_path, fault, inf)
  IN  IF r.ok
        THEN r
        ELSE Raise(Exc("Exception", <<"Prediction error: ">> \o r.exc.msg),
                   r.events, r.printed)

\* predict taking the entry out of the table, self.info.pop(predicted_class, default)
predict_self_popping(p, self, image_path, fault, inf) ==
  IF /\ preprocess_image(image_path, fault).ok
     /\ ~inf.raised
     /\ Len(inf.vec) > 0
     /\ argmax(inf.vec) < Len(self.class_names)
    THEN [self EXCEPT !.info =
            [k \in DOMAIN self.info \ {self.class_names[argmax(inf.vec) + 1]} |-> self.info[k]]]
    ELSE self

\* the fields of self after predict(self, image_path): predict assigns none
predict_self(p, self, image_path, fault, inf) ==
  self

\* the message of the usage branch of __main__
Usage(p) ==
  IF p = "disease"
    THEN <<"Usage: python disease_predictor.py <model_path> <image_path>">>
    ELSE <<"Usage: python pest_predictor.py <model_path> <image_path>">>

---------------------------------------------------------------------------
(* The callers: the script's __main__ block, and client code using the class *)

Script(p) ==
  IF p = "disease" THEN "disease_predictor.py" ELSE "pest_predictor.py"

ArgLists ==
  UNION {[1..n -> Paths] : n \in 0..MaxArgs}

NoInput ==
  [pipeline |-> "none", class_names |-> <<>>, info |-> <<>>, vec |-> <<>>]

NotComposed ==
  [done |-> FALSE, r |-> Return(NoValue, <<>>, <<>>)]

\* number of load_model runs among the stages of a call
Loads(events) ==
  Cardinality({i \in 1..Len(events) : events[i] = "load"})

Init ==
  /\ caller \in {"main", "client"}
  /\ pipeline \in Pipelines
  /\ sys_argv \in IF caller = "main"
                    THEN {<<Script(pipeline)>> \o a : a \in ArgLists}
                    ELSE {<<>>}
  /\ pc = "start"
  /\ predictor = NoPredictor
  /\ stdout = <<>>
  /\ exit_status = Running
  /\ ret = Return(NoValue, <<>>, <<>>)
  /\ stages = <<>>
  /\ loads = 0
  /\ calls = 0
  /\ cin = NoInput
  /\ cout = NotComposed

\* __main__: if len(sys.argv) != 3: print the usage error; sys.exit(1)
MainUsage ==
  /\ caller = "main" /\ pc = "start"
  /\ Len(sys_argv) # 3
  /\ stdout' = Append(stdout, JsonLine([error |-> Usage(pipeline)]))
  /\ exit_status' = 1
  /\ pc' = "exited"
  /\ UNCHANGED <<caller, pipeline, sys_argv, predictor, ret, stages, loads, calls, cin, cout>>

\* __main__ constructing the predictor without the test of len(sys.argv)
MainConstruct_AnyCount ==
  /\ caller = "main" /\ pc = "start"
  /\ Len(sys_argv) >= 3
  /\ ret' = New(pipeline, sys_argv[2])
  /\ stages' = ret'.events
  /\ loads' = loads + Loads(ret'.events)
  /\ IF ret'.ok
       THEN /\ predictor' = ret'.val
            /\ stdout' = stdout \o ret'.printed
            /\ pc' = "constructed"
            /\ UNCHANGED exit_status
       ELSE /\ stdout' = (stdout \o ret'.printed) \o <<JsonLine([error |-> ret'.exc.msg])>>
            /\ exit_status' = 1
            /\ pc' = "exited"
            /\ UNCHANGED predictor
  /\ UNCHANGED <<caller, pipeline, sys_argv, calls, cin, cout>>

\* __main__: predictor = DiseasePredictor(model_path), under except Exception
MainConstruct ==
  /\ caller = "main" /\ pc = "start"
  /\ Len(sys_argv) = 3
  /\ ret' = New(pipeline, sys_argv[2])
  /\ stages' = ret'.events
  /\ loads' = loads + Loads(ret'.events)
  /\ IF ret'.ok
       THEN /\ predictor' = ret'.val
            /\ stdout' = stdout \o ret'.printed
            /\ pc' = "constructed"
            /\ UNCHANGED exit_status
       ELSE /\ stdout' = (stdout \o ret'.printed) \o <<JsonLine([error |-> ret'.exc.msg])>>
            /\ exit_status' = 1
            /\ pc' = "exited"
            /\ UNCHANGED predictor
  /\ UNCHANGED <<caller, pipeline, sys_argv, calls, cin, cout>>

\* __main__: result = predictor.predict(image_path), under except Exception
MainPredict ==
  /\ caller = "main" /\ pc = "constructed"
  /\ \E fault \in PreFaults :
     \E inf \in Forward(predictor.model, sys_argv[3], fault) :
       /\ ret' = predict(pipeline, predictor, sys_argv[3], fault, inf)
       /\ stages' = ret'.events
       /\ loads' = loads + Loads(ret'.events)
       /\ calls' = calls + 1
       /\ predictor' = predict_self(pipeline, predictor, sys_argv[3], fault, inf)
       /\ IF ret'.ok
            THEN /\ stdout' = stdout \o ret'.printed
                 /\ pc' = "predicted"
                 /\ UNCHANGED exit_status
            ELSE /\ stdout' = (stdout \o ret'.printed) \o <<JsonLine([error |-> ret'.exc.msg])>>
                 /\ exit_status' = 1
                 /\ pc' = "exited"
  /\ UNCHANGED <<caller, pipeline, sys_argv, cin, cout>>

\* __main__: print(json.dumps(result)), then the script ends
MainPrint ==
  /\ caller = "main" /\ pc = "predicted"
  /\ stdout' = Append(stdout, JsonLine(ret.val))
  /\ stages' = Append(stages, "output")
  /\ exit_status' = 0
  /\ pc' = "exited"
  /\ UNCHANGED <<caller, pipeline, sys_argv, predictor, ret, loads, calls, cin, cout>>

\* client code: predictor = DiseasePredictor(model_path)
ClientConstruct ==
  /\ caller = "client" /\ pc = "start"
  /\ \E model_path \in Paths :
       /\ ret' = New(pipeline, model_path)
       /\ stages' = ret'.events
       /\ loads' = loads + Loads(ret'.events)
       /\ stdout' = stdout \o ret'.printed
       /\ IF ret'.ok
            THEN predictor' = ret'.val /\ pc' = "constructed"
            ELSE UNCHANGED predictor /\ pc' = "failed"
  /\ UNCHANGED <<caller, pipeline, sys_argv, exit_status, calls, cin, cout>>

\* client code: predictor.predict(image_path), the exception reaching the client
ClientPredict ==
  /\ caller = "client" /\ pc = "constructed"
  /\ calls < MaxCalls
  /\ \E image_path \in Paths, fault \in PreFaults :
     \E inf \in Forward(predictor.model, image_path, fault) :
       /\ ret' = predict(pipeline, predictor, image_path, fault, inf)
       /\ stages' = ret'.events
       /\ loads' = loads + Loads(ret'.events)
       /\ stdout' = stdout \o ret'.printed
       /\ predictor' = predict_self(pipeline, predictor, image_path, fault, inf)
  /\ calls' = calls + 1
  /\ UNCHANGED <<caller, pipeline, sys_argv, pc, exit_status, cin, cout>>

Next ==
  \/ MainUsage
  \/ MainConstruct
  \/ MainPredict
  \/ MainPrint
  \/ ClientConstruct
  \/ ClientPredict

Spec ==
  Init /\ [][Next]_vars

---------------------------------------------------------------------------
(* The composition step of predict as a function of its inputs: the label   *)
(* list, the advisory table and the vector are drawn, then compose is       *)
(* applied to them.                                                         *)

\* labels drawn: two of the code's, and two that put "healthy" in other cases
Labels ==
  { <<"T","o","m","a","t","o","_","h","e","a","l","t","h","y">>,
    <<"A","p","p","l","e","_","s","c","a","b">>,
    <<"s","t","e","m","_","b","o","r","e","r">>,
    <<"K","a","l","e","_","H","e","a","l","T","H","Y">> }

\* lists of distinct labels
LabelLists ==
  { l \in UNION {[1..n -> Labels] : n \in 1..MaxLabels} :
      \A i, j \in 1..Len(l) : l[i] = l[j] => i = j }

\* the description of the table entry drawn for a key: it names its key
EntryText(key) ==
  CASE key = <<"T","o","m","a","t","o","_","h","e","a","l","t","h","y">> -> "entry under Tomato_healthy"
    [] key = <<"A","p","p","l","e","_","s","c","a","b">> -> "entry under Apple_scab"
    [] key = <<"s","t","e","m","_","b","o","r","e","r">> -> "entry under stem_borer"
    [] key = <<"K","a","l","e","_","H","e","a","l","T","H","Y">> -> "entry under Kale_HealTHY"
    [] key = <<"T","O","M","A","T","O"," ","H","E","A","L","T","H","Y">> -> "entry under TOMATO HEALTHY"
    [] key = <<"A","P","P","L","E"," ","S","C","A","B">> -> "entry under APPLE SCAB"
    [] key = <<"S","T","E","M"," ","B","O","R","E","R">> -> "entry under STEM BORER"
    [] key = <<"K","A","L","E"," ","H","E","A","L","T","H","Y">> -> "entry under KALE HEALTHY"
    [] OTHER -> "entry under another key"

\* the table entry drawn for a key
Entry(key) ==
  [description |-> EntryText(key),
   treatment |-> "treatment of the table",
   pesticide |-> [name |-> "pesticide of the table", dosage |-> "1 g/L", type |-> "any"]]

\* keys a drawn table may hold: the labels of the list, as they are and as displayed
Keys(l) ==
  {l[i] : i \in 1..Len(l)} \cup {Replace(Upper(l[i]), "_", " ") : i \in 1..Len(l)}

Tables(l) ==
  { [k \in ks |-> Entry(k)] : ks \in SUBSET Keys(l) }

Vectors ==
  UNION {[1..n -> 0..MaxProb] : n \in 0..MaxVecLen}

InitCompose ==
  /\ caller = "none"
  /\ pipeline = "none"
  /\ sys_argv = <<>>
  /\ pc = "idle"
  /\ predictor = NoPredictor
  /\ stdout = <<>>
  /\ exit_status = Running
  /\ ret = Return(NoValue, <<>>, <<>>)
  /\ stages = <<>>
  /\ loads = 0
  /\ calls = 0
  /\ \E p \in Pipelines, l \in LabelLists :
       \E t \in Tables(l), v \in Vectors :
         cin = [pipeline |-> p, class_names |-> l, info |-> t, vec |-> v]
  /\ cout = NotComposed

\* apply the composition step to the inputs drawn
ApplyCompose ==
  /\ ~cout.done
  /\ cout' = [done |-> TRUE,
              r |-> compose(cin.pipeline, cin.class_names, cin.info, cin.vec)]
  /\ UNCHANGED <<caller, pipeline, sys_argv, pc, predictor, stdout, exit_status,
                 ret, stages, loads, calls, cin>>

NextCompose ==
  ApplyCompose

SpecCompose ==
  InitCompose /\ [][NextCompose]_vars

---------------------------------------------------------------------------
(* Properties *)

\* the stages the last call ran
Ran(stage) ==
  \E i \in 1..Len(stages) : stages[i] = stage

\* i is the lowest position of v holding v's largest value
FirstMax(v, i) ==
  /\ i \in 1..Len(v)
  /\ \A j \in 1..Len(v) : v[j] <= v[i]
  /\ \A j \in 1..(i - 1) : v[j] < v[i]

\* C1: in both pipelines predict rejects every probability vector whose
\* length differs from the size of the label list: once the forward pass has
\* returned a vector of another length, predict does not return a result.
C1_MismatchedLengthRejected ==
  (Ran("compose") /\ predictor.model.outputs # Len(predictor.class_names))
    => ~ret.ok

\* C2: the composition step selects the lowest index holding the largest
\* value, reports the label at that index (as the pipeline displays it) and
\* reports as confidence the vector's value at that index, unchanged; the
\* vector [0.1, 0.7, 0.2] (in tenths) gives index 1 and confidence 0.7.
C2_ArgmaxFirstOccurrence ==
  /\ (cout.done /\ cout.r.ok) =>
       \E i \in 1..Len(cin.vec) :
         /\ FirstMax(cin.vec, i)
         /\ i <= Len(cin.class_names)
         /\ cout.r.val.detected_class = detected_class(cin.pipeline, cin.class_names[i])
         /\ cout.r.val.confidence = cin.vec[i]
  /\ (cout.done /\ ~cout.r.ok) =>
       \A i \in 1..Len(cin.vec) : FirstMax(cin.vec, i) => i > Len(cin.class_names)
  /\ cout.done => argmax(<<1, 7, 2>>) = 1

\* C2 witness: the largest value occurs twice and the first occurrence was taken
C2_Witness ==
  /\ cout.done /\ cout.r.ok
  /\ Len(cin.vec) = 3 /\ Len(cin.class_names) = 2
  /\ cin.vec[1] < cin.vec[2] /\ cin.vec[2] = cin.vec[3]
  /\ cout.r.val.detected_class = detected_class(cin.pipeline, cin.class_names[2])
  /\ cout.r.val.confidence = cin.vec[2]

\* the drawn labels that contain "healthy" in some letter case
HealthyDrawn ==
  { <<"T","o","m","a","t","o","_","h","e","a","l","t","h","y">>,
    <<"K","a","l","e","_","H","e","a","l","T","H","Y">> }

\* C3: in the disease pipeline a selected label containing "healthy" in any
\* letter case gets the fixed record (description "Plant appears healthy",
\* treatment "Continue regular care and monitoring", pesticide name "No
\* treatment needed") whatever the advisory table holds, also when the table
\* has an entry for that label; a label without the substring gets the
\* table's entry or the fallback, never the fixed record.
C3_HealthyOverride ==
  (cin.pipeline = "disease" /\ cout.done /\ cout.r.ok) =>
    LET L == cout.r.val.detected_class
    IN  IF L \in HealthyDrawn
          THEN /\ cout.r.val.description = "Plant appears healthy"
               /\ cout.r.val.treatment = "Continue regular care and monitoring"
               /\ cout.r.val.pesticide.name = "No treatment needed"
               /\ cout.r.val.pesticide = [name |-> "No treatment needed", dosage |-> "N/A", type |-> "N/A"]
          ELSE /\ cout.r.val.description # "Plant appears healthy"
               /\ cout.r.val.treatment # "Continue regular care and monitoring"
               /\ cout.r.val.pesticide.name # "No treatment needed"

\* C3 witness: the table has its own entry for an upper-case "healthy" label,
\* and the response carries the fixed record
C3_Witness ==
  /\ cin.pipeline = "disease" /\ cout.done /\ cout.r.ok
  /\ cout.r.val.detected_class = <<"K","a","l","e","_","H","e","a","l","T","H","Y">>
  /\ cout.r.val.detected_class \in DOMAIN cin.info
  /\ cout.r.val.description = "Plant appears healthy"

\* indices (from 1) of the disease labels that contain "healthy"
HealthyIndices ==
  {4, 5, 7, 11, 15, 18, 20, 23, 24, 25, 28, 38}

\* the labels of each pipeline as its responses show them
DisplayedNames ==
  [p \in Pipelines |->
     [i \in 1..Len(ClassNamesOf(p)) |-> detected_class(p, ClassNamesOf(p)[i])]]

\* the index (from 1) of the label the last result reports
SelectedIndex ==
  CHOOSE i \in 1..Len(ClassNamesOf(pipeline)) :
    DisplayedNames[pipeline][i] = ret.val.detected_class

\* the response's advisory fields are those of rec
Carries(val, rec) ==
  /\ val.description = rec.description
  /\ val.treatment = rec.treatment
  /\ val.pesticide = rec.pesticide

\* the generic fallback record, as the claim words it
GenericRecord(p) ==
  [description |-> IF p = "disease" THEN "Disease detected" ELSE "Pest detected",
   treatment |-> "Consult agricultural expert for treatment",
   pesticide |-> [name |-> IF p = "disease" THEN "General Fungicide" ELSE "General Insecticide",
                  dosage |-> "As per label",
                  type |-> IF p = "disease" THEN "Fungicide" ELSE "Insecticide"]]

\* every index of the label list is reached without failure and with a
\* complete response
C4_NoFailure ==
  /\ (Ran("compose") /\ predictor.model.outputs <= Len(ClassNamesOf(pipeline))) => ret.ok
  /\ (Ran("compose") /\ ret.ok) =>
       /\ DOMAIN ret.val = {"detected_class", "confidence", "description", "treatment", "pesticide"}
       /\ \E i \in 1..Len(ClassNamesOf(pipeline)) :
            detected_class(pipeline, ClassNamesOf(pipeline)[i]) = ret.val.detected_class

\* C4 as claimed: for every label of the list predict returns a complete
\* response, with the table's entry for a label that has one and the generic
\* fallback record for every label that has none.
C4_EntryOrFallback ==
  /\ C4_NoFailure
  /\ (Ran("compose") /\ ret.ok) =>
       LET L == ClassNamesOf(pipeline)[SelectedIndex]
       IN  IF L \in DOMAIN InfoOf(pipeline)
             THEN Carries(ret.val, InfoOf(pipeline)[L])
             ELSE Carries(ret.val, GenericRecord(pipeline))

\* C4 amended: for every label of the list predict returns a complete
\* response and never fails for want of advisory text; a disease label
\* containing "healthy" gets the fixed healthy record, any other label gets
\* the table's entry if it has one and the generic fallback record if not.
C4_EntryOrFallbackOrHealthy ==
  /\ C4_NoFailure
  /\ (Ran("compose") /\ ret.ok) =>
       LET L == ClassNamesOf(pipeline)[SelectedIndex]
       IN  IF pipeline = "disease" /\ SelectedIndex \in HealthyIndices
             THEN Carries(ret.val,
                          [description |-> "Plant appears healthy",
                           treatment |-> "Continue regular care and monitoring",
                           pesticide |-> [name |-> "No treatment needed",
                                          dosage |-> "N/A", type |-> "N/A"]])
             ELSE IF L \in DOMAIN InfoOf(pipeline)
                    THEN Carries(ret.val, InfoOf(pipeline)[L])
                    ELSE Carries(ret.val, GenericRecord(pipeline))

\* C4 witness: a disease label with no table entry got the generic record
C4_Witness ==
  /\ pipeline = "disease" /\ Ran("compose") /\ ret.ok
  /\ ret.val.detected_class = Disease_class_names[12]
  /\ Disease_class_names[12] \notin DOMAIN disease_info
  /\ ret.val.description = "Disease detected"

\* the drawn labels in upper case with spaces for underscores
DisplayDrawn(l) ==
  CASE l = <<"T","o","m","a","t","o","_","h","e","a","l","t","h","y">>
         -> <<"T","O","M","A","T","O"," ","H","E","A","L","T","H","Y">>
    [] l = <<"A","p","p","l","e","_","s","c","a","b">>
         -> <<"A","P","P","L","E"," ","S","C","A","B">>
    [] l = <<"s","t","e","m","_","b","o","r","e","r">>
         -> <<"S","T","E","M"," ","B","O","R","E","R">>
    [] l = <<"K","a","l","e","_","H","e","a","l","T","H","Y">>
         -> <<"K","A","L","E"," ","H","E","A","L","T","H","Y">>

\* C5: in the pest pipeline detected_class is the selected label in upper
\* case with each underscore replaced by a space, and description, treatment
\* and pesticide are those the table holds under the untransformed label
\* (the fallback if it holds none), whatever it holds under the displayed form.
C5_PestDisplay ==
  (cin.pipeline = "pest" /\ cout.done /\ cout.r.ok) =>
    \E i \in 1..Len(cin.vec) :
      /\ FirstMax(cin.vec, i)
      /\ LET L == cin.class_names[i]
         IN  /\ cout.r.val.detected_class = DisplayDrawn(L)
             /\ IF L \in DOMAIN cin.info
                  THEN Carries(cout.r.val, cin.info[L])
                  ELSE Carries(cout.r.val, GenericRecord("pest"))

\* C5 witness: "stem_borer" shown as "STEM BORER", the table holding an entry
\* under each of the two strings, and the response carrying the one under
\* "stem_borer"
C5_Witness ==
  /\ cin.pipeline = "pest" /\ cout.done /\ cout.r.ok
  /\ cout.r.val.detected_class = <<"S","T","E","M"," ","B","O","R","E","R">>
  /\ <<"S","T","E","M"," ","B","O","R","E","R">> \in DOMAIN cin.info
  /\ <<"s","t","e","m","_","b","o","r","e","r">> \in DOMAIN cin.info
  /\ cout.r.val.description = "entry under stem_borer"

\* the run of the script has ended
Exited ==
  caller = "main" /\ pc = "exited"

\* the run made a prediction and printed it
Succeeded ==
  Ran("output")

\* a line of standard output is the JSON object {"error": <message>}
IsErrorObject(line) ==
  line.fmt = "json" /\ DOMAIN line.body = {"error"}

\* a line of standard output is a result JSON object
IsResultObject(line) ==
  /\ line.fmt = "json"
  /\ DOMAIN line.body = {"detected_class", "confidence", "description", "treatment", "pesticide"}

\* C6: a failing run of the script writes to standard output one JSON object
\* {"error": <message>} and nothing else and exits with a non-zero status; a
\* successful run writes one result JSON object and exits with status zero.
C6_SingleJsonObject ==
  Exited =>
    /\ Len(stdout) = 1
    /\ IF Succeeded
         THEN IsResultObject(stdout[1]) /\ exit_status = 0
         ELSE IsErrorObject(stdout[1]) /\ exit_status # 0 /\ exit_status # Running

\* the usage-error object of each script
UsageError(p) ==
  IF p = "disease"
    THEN JsonLine([error |-> <<"Usage: python disease_predictor.py <model_path> <image_path>">>])
    ELSE JsonLine([error |-> <<"Usage: python pest_predictor.py <model_path> <image_path>">>])

\* C7: with any number of arguments other than two the script prints the
\* usage-error object and exits with a non-zero status, having constructed no
\* predictor, loaded no model and read no image; with exactly two arguments
\* the usage error is never printed.
C7_UsageError ==
  caller = "main" =>
    IF Len(sys_argv) - 1 # 2
      THEN /\ ~predictor.constructed /\ loads = 0 /\ calls = 0 /\ stages = <<>>
           /\ Exited => (stdout = <<UsageError(pipeline)>> /\ exit_status = 1)
           /\ ~Exited => (stdout = <<>> /\ exit_status = Running)
      ELSE \A i \in 1..Len(stdout) : stdout[i] # UsageError(pipeline)

\* C7 witness: the script ran with three arguments and ended on the usage error
C7_Witness ==
  /\ Exited /\ Len(sys_argv) - 1 = 3
  /\ stdout = <<UsageError(pipeline)>>
  /\ exit_status = 1

\* a message holds the piece
Has(msg, piece) ==
  \E i \in 1..Len(msg) : msg[i] = piece

\* C8: with two arguments of which the model path does not exist, the script
\* prints an error object whose message contains "Model file not found" and
\* exits with a non-zero status, whatever the image path; no image is decoded
\* and no inference runs.
C8_ModelFileNotFound ==
  (caller = "main" /\ Len(sys_argv) = 3 /\ sys_argv[2] = "missing.h5") =>
    /\ calls = 0 /\ ~Ran("preprocess") /\ ~Ran("forward") /\ ~Ran("compose")
    /\ ~predictor.constructed
    /\ Exited =>
         /\ IsErrorObject(stdout[Len(stdout)])
         /\ Has(stdout[Len(stdout)].body.error, "Model file not found: ")
         /\ \A i \in 1..Len(stdout) : ~IsResultObject(stdout[i])
         /\ exit_status = 1

\* C8 witness: the model path is missing, the image path exists, and the run
\* has ended on the error
C8_Witness ==
  /\ Exited /\ Len(sys_argv) = 3
  /\ sys_argv[2] = "missing.h5" /\ sys_argv[3] = "leaf.jpg"
  /\ Has(stdout[Len(stdout)].body.error, "Model file not found: ")
  /\ exit_status = 1

\* the kind of an exception: its class and the label that opens its message
Kind(e) ==
  <<e.type, e.msg[1]>>

\* C9: a failure inside preprocessing reaches the caller of predict as the
\* preprocessing error (the ValueError "Error preprocessing image: <cause>")
\* with its cause, of another kind than what reaches the caller when the
\* forward pass fails; it is not given another label on the way.
C9_PreprocessingErrorKept ==
  (stages = <<"preprocess">> /\ ~ret.ok) =>
    /\ Kind(ret.exc) = <<"ValueError", "Error preprocessing image: ">>
    /\ Len(ret.exc.msg) = 2
    /\ Kind(ret.exc) #
         Kind(predict(pipeline, predictor, "leaf.jpg", "none",
                      [raised |-> TRUE, vec |-> <<>>]).exc)

\* C10: on one instance load_model runs exactly once, in the constructor;
\* predict calls, returning or raising, run no load and leave the model
\* handle as the constructor set it; no predict call is made on an instance
\* whose load failed, the constructor having raised.
C10_LoadedOnce ==
  /\ loads <= 1
  /\ predictor.constructed =>
       /\ loads = 1
       /\ predictor.model = [path |-> predictor.model_path,
                             outputs |-> Outputs(predictor.model_path)]
       /\ Loadable(predictor.model_path)
  /\ calls > 0 => (predictor.constructed /\ loads = 1)
  /\ (loads = 1 /\ ~predictor.constructed) =>
       (calls = 0 /\ ~ret.ok /\ pc \in {"failed", "exited"})

\* C10 witness: two predict calls were made on one instance, the last one
\* raising, with one load in all
C10_Witness ==
  /\ caller = "client" /\ calls = 2 /\ loads = 1
  /\ predictor.constructed /\ ~ret.ok

\* the record the construction-time table and the rules of predict give for
\* each label of each pipeline
AdvisoryByIndex ==
  [p \in Pipelines |->
     [i \in 1..Len(ClassNamesOf(p)) |-> advisory(p, InfoOf(p), ClassNamesOf(p)[i])]]

\* C11: a predict call, returning or raising, leaves the label list, the
\* advisory table, the model path and the model handle of the instance as
\* they were, and the advisory fields of its result are those the unchanged
\* table and rules give for the label it selected, whatever requests came
\* before.
C11_PredictLeavesInstance ==
  [][calls' # calls =>
       /\ predictor' = predictor
       /\ predictor'.class_names = ClassNamesOf(pipeline)
       /\ predictor'.info = InfoOf(pipeline)
       /\ predictor'.model_path = predictor.model_path
       /\ predictor'.model = predictor.model
       /\ ret'.ok =>
            [description |-> ret'.val.description,
             treatment |-> ret'.val.treatment,
             pesticide |-> ret'.val.pesticide]
              = AdvisoryByIndex[pipeline][SelectedIndex']]_vars

\* C11 witness: a second request on one instance returned a label that has a
\* table entry, and carries that entry
C11_Witness ==
  /\ caller = "client" /\ calls = 2 /\ ret.ok /\ Ran("compose")
  /\ ClassNamesOf(pipeline)[SelectedIndex] \in DOMAIN InfoOf(pipeline)
  /\ Carries(ret.val, InfoOf(pipeline)[ClassNamesOf(pipeline)[SelectedIndex]])
  /\ predictor.info = InfoOf(pipeline)

\* the file create_dummy_models saves the pipeline's dummy model in
OwnDummyModel(p) ==
  IF p = "disease" THEN "disease_model.h5" ELSE "pest_model.h5"

\* a constructed predictor holds n disease labels or 10 pest labels, all
\* different, as many as its pipeline's dummy model has outputs
LabelCounts(n) ==
  predictor.constructed =>
    /\ Len(predictor.class_names) = IF pipeline = "disease" THEN n ELSE 10
    /\ \A i, j \in 1..Len(predictor.class_names) :
         predictor.class_names[i] = predictor.class_names[j] => i = j
    /\ predictor.model_path = OwnDummyModel(pipeline) =>
         predictor.model.outputs = Len(predictor.class_names)

\* C12 as claimed: the label list has exactly 37 entries in the disease
\* pipeline and exactly 10 in the pest pipeline, without duplicates, and as
\* many as the dummy model of the pipeline has outputs.
C12_LabelCounts37 ==
  LabelCounts(37)

\* C12 amended: the label list has exactly 38 entries in the disease
\* pipeline and exactly 10 in the pest pipeline, without duplicates, and as
\* many as the dummy model of the pipeline has outputs.
C12_LabelCounts38 ==
  LabelCounts(38)

\* C12 witness: a disease predictor built on the dummy disease model, 38
\* labels against 38 outputs
C12_Witness ==
  /\ predictor.constructed /\ pipeline = "disease"
  /\ predictor.model_path = "disease_model.h5"
  /\ Len(predictor.class_names) = 38
  /\ predictor.model.outputs = 38

\* C13: the stages of a run come in the order model load, preprocessing,
\* forward pass, composition, output; a request runs the forward pass at most
\* once and only after preprocessing returned, composition only after the
\* forward pass returned; the stage that fails is the last one run, and after
\* a failure no result object is written.
C13_StageOrder ==
  /\ stages \in { <<>>, <<"load">>, <<"preprocess">>,
                  <<"preprocess", "forward">>,
                  <<"preprocess", "forward", "compose">>,
                  <<"preprocess", "forward", "compose", "output">> }
  /\ Ran("preprocess") => (predictor.constructed /\ loads = 1)
  /\ (ret.ok /\ Ran("preprocess")) => Ran("compose")
  /\ Ran("output") =>
       /\ ret.ok /\ Exited /\ exit_status = 0
       /\ stdout = <<JsonLine(ret.val)>>
  /\ ~ret.ok =>
       /\ stages = <<"load">> <=> ~predictor.constructed
       /\ stages = <<"preprocess">> <=> Has(ret.exc.msg, "Error preprocessing image: ")
       /\ stages = <<"preprocess", "forward">> <=> Has(ret.exc.msg, "Graph execution error")
       /\ stages = <<"preprocess", "forward", "compose">> <=>
            Has(ret.exc.msg, "list index out of range")
       /\ ~Ran("output")
       /\ \A i \in 1..Len(stdout) : ~IsResultObject(stdout[i])
       /\ caller = "main" => (Exited /\ exit_status = 1)

\* C13 witness: the forward pass of the script's request failed after
\* preprocessing returned; the run ended there, without composition or output
C13_Witness ==
  /\ Exited /\ ~ret.ok
  /\ stages = <<"preprocess", "forward">>
  /\ loads = 1 /\ calls = 1
  /\ exit_status = 1

====
